---- MODULE Spec2Model ----
(***************************************************************************)
(* Model of the Oppia reader controllers (core/controllers/reader.py):     *)
(* ExplorationHandler.get, FeedbackHandler.post and                        *)
(* RandomExplorationPage.get, together with the collaborators they call    *)
(* (exploration store, rule classifier, content renderer, widget registry  *)
(* and analytics event handler).                                           *)
(*                                                                         *)
(* HTML fragments are sequences of tokens; the empty string is <<>>.       *)
(* A params dict is a total map over ParamNames in which an absent key     *)
(* maps to Unbound.                                                        *)
(***************************************************************************)
EXTENDS Integers, Sequences, FiniteSets, TLC

\* ------------------------------------------------------------------ bounds
\* Longest state_history a client still submits with a request.
MaxHistory == 3

\* Longest state_history in a payload that a client makes up.
MaxForged == 2

\* --------------------------------------------------------------- constants
END_DEST == "END"
INTERACTIVE_PREFIX == "interactive"
Unbound == "#unbound"
BR == "<br>"
NL == "\n"

Sessions == {"s1", "s2"}
ExplorationIds == {"1", "2"}
DemoId == "1"
Answers == {"yes", "no", "end"}
Handlers == {"submit"}
ParamNames == {"answer", "p"}
RefTokens == {"{answer}", "{p}"}

\* The widget kinds the registry knows in the interactive scope.
RegisteredWidgets == {"TextInput", "Continue"}

EmptyParams == [n \in ParamNames |-> Unbound]

\* ------------------------------------------------- exploration definitions
Rule(pred, dest, feedback) == [pred |-> pred, dest |-> dest, feedback |-> feedback]

Widget(id, sticky, args, rules) ==
    [widget_id |-> id, sticky |-> sticky, customization_args |-> args,
     rules |-> rules]

State(id, content, changes, widget) ==
    [id |-> id, content |-> content, param_changes |-> changes,
     widget |-> widget]

\* The demo exploration: A (TextInput, not sticky), B (TextInput, sticky),
\* C (Continue, sticky).
DemoExploration ==
    [title |-> "Demo", init_state_id |-> "A", init_params |-> EmptyParams,
     states |->
       [A |-> State("A", <<"intro">>, <<>>,
                Widget("TextInput", FALSE, <<>>,
                  << Rule("yes", "B", <<"good">>),
                     Rule("no", "A", <<"try", NL, "again">>),
                     Rule("default", "C", <<>>) >>)),
        B |-> State("B", <<"{p}">>, << [name |-> "p", value |-> "{answer}"] >>,
                Widget("TextInput", TRUE, <<>>,
                  << Rule("yes", "C", <<"next">>),
                     Rule("no", "B", <<>>),
                     Rule("default", END_DEST, <<"Done">>) >>)),
        C |-> State("C", <<>>, <<>>,
                Widget("Continue", TRUE, <<"{answer}">>,
                  << Rule("yes", "A", <<"{p}">>),
                     Rule("no", "B", <<>>),
                     Rule("default", END_DEST, <<>>) >>))]]

\* A second exploration whose data is malformed: X uses an unregistered
\* widget kind, has a rule leading to the absent state Z and no catch-all
\* rule; Y's content needs a parameter nothing sets.
BrokenExploration ==
    [title |-> "Broken", init_state_id |-> "X", init_params |-> EmptyParams,
     states |->
       [X |-> State("X", <<"x">>, <<>>,
                Widget("Bogus", FALSE, <<>>,
                  << Rule("yes", "Y", <<>>),
                     Rule("no", "Z", <<>>) >>)),
        Y |-> State("Y", <<"{p}">>, <<>>,
                Widget("TextInput", FALSE, <<"{p}">>,
                  << Rule("yes", "X", <<>>),
                     Rule("no", "Y", <<"{p}">>),
                     Rule("default", END_DEST, <<"bye">>) >>))]]

ExplorationData(e) == IF e = DemoId THEN DemoExploration ELSE BrokenExploration

StateIds == {"A", "B", "C", "X", "Y", "Z"}

\* ----------------------------------------------------------------- helpers
RECURSIVE Contains(_, _)
\* Python's `x in list`.
Contains(seq, x) ==
    IF seq = <<>> THEN FALSE
    ELSE IF Head(seq) = x THEN TRUE ELSE Contains(Tail(seq), x)

RefName(tok) == IF tok = "{answer}" THEN "answer" ELSE "p"

\* --------------------------------------------------- exp_services (store)
\* exp_services.get_exploration_by_id succeeds iff the id is in the store.
ExplorationExists(store, e) == e \in store

\* exp_services.get_state_by_id succeeds iff the exploration is stored and
\* has a state of that id.
StateExists(store, e, sid) ==
    /\ e \in store
    /\ sid \in DOMAIN ExplorationData(e).states

GetState(e, sid) == ExplorationData(e).states[sid]

\* exp_services.get_init_params
GetInitParams(e) == ExplorationData(e).init_params

RECURSIVE ApplyParamChanges(_, _)
ApplyParamChanges(changes, params) ==
    IF changes = <<>> THEN params
    ELSE LET c == Head(changes)
             v == IF c.value \in RefTokens THEN params[RefName(c.value)]
                  ELSE c.value
         IN ApplyParamChanges(Tail(changes), [params EXCEPT ![c.name] = v])

\* exp_services.update_with_state_params: the state's parameter changes
\* applied, in order, on top of reader_params.
UpdateWithStateParams(e, sid, reader_params) ==
    ApplyParamChanges(GetState(e, sid).param_changes, reader_params)

\* ----------------------------------------------------- content rendering
RECURSIVE CanRender(_, _)
\* Rendering fails when a placeholder names a parameter that is not bound.
CanRender(tokens, params) ==
    IF tokens = <<>> THEN TRUE
    ELSE /\ (Head(tokens) \in RefTokens => params[RefName(Head(tokens))] /= Unbound)
         /\ CanRender(Tail(tokens), params)

RECURSIVE Render(_, _)
\* exp_services.export_content_to_html: every placeholder replaced by the
\* value of its parameter.
Render(tokens, params) ==
    IF tokens = <<>> THEN <<>>
    ELSE LET t == Head(tokens)
         IN << IF t \in RefTokens THEN params[RefName(t)] ELSE t >>
            \o Render(Tail(tokens), params)

RECURSIVE JoinLines(_)
\* '<br>'.join(feedback.split('\n'))
JoinLines(feedback) ==
    IF feedback = <<>> THEN <<>>
    ELSE << IF Head(feedback) = NL THEN BR ELSE Head(feedback) >>
         \o JoinLines(Tail(feedback))

\* ------------------------------------------------------- widget registry
\* widget_registry.Registry.get_widget_by_id succeeds for registered kinds.
WidgetKnown(prefix, widget_id) ==
    prefix = INTERACTIVE_PREFIX /\ widget_id \in RegisteredWidgets

\* widget.get_raw_code: the widget's own markup followed by its rendered
\* customization arguments.
CanGetRawCode(widget, params) == CanRender(widget.customization_args, params)
GetRawCode(widget, params) ==
    << widget.widget_id >> \o Render(widget.customization_args, params)

\* widget.get_reader_response_html: (html, iframe)
GetReaderResponseHtml(widget, params, answer) ==
    << << "you said", answer >>, <<>> >>

\* widget.get_stats_log_html
GetStatsLogHtml(widget, params, answer) == << widget.widget_id, answer >>

\* ------------------------------------------------------- rule classifier
RuleMatches(rule, answer, params) ==
    rule.pred = "default" \/ rule.pred = answer

\* exp_services.classify: index of the first rule of the state's handler
\* that matches, 0 when none does (the call then raises).
Classify(e, sid, handler, answer, params) ==
    LET rules == GetState(e, sid).widget.rules
        hits == {i \in 1..Len(rules) : RuleMatches(rules[i], answer, params)}
    IN IF hits = {} THEN 0
       ELSE CHOOSE i \in hits : \A j \in hits : i <= j

\* ------------------------------------------------ FeedbackHandler helpers
\* FeedbackHandler._get_feedback
CanGetFeedback(feedback, params) ==
    feedback = <<>> \/ CanRender(JoinLines(feedback), params)

GetFeedback(feedback, params) ==
    IF feedback = <<>> THEN <<>>
    ELSE Render(JoinLines(feedback), params)

\* The flag computed against the history after the append.
IsFirstVisit_AfterAppend(new_state_id, state_history) ==
    ~ Contains(Append(state_history, new_state_id), new_state_id)

\* The answer left out of the params.
MergeAnswer_Dropped(params, answer) == params

\* An answer already in the params kept (setdefault).
MergeAnswer_KeepOld(params, answer) ==
    IF params["answer"] /= Unbound THEN params
    ELSE [params EXCEPT !["answer"] = answer]

\* old_params = payload.get('params', {}); old_params['answer'] = answer
MergeAnswer(params, answer) == [params EXCEPT !["answer"] = answer]

\* The block number handed back as it came.
NextBlockNumber_Same(block_number) == block_number

\* block_number = payload.get('block_number') + 1
NextBlockNumber(block_number) == block_number + 1

\* first-visit flag handed to record_state_hit
IsFirstVisit(new_state_id, state_history) ==
    ~ Contains(state_history, new_state_id)

\* A history kept free of duplicates.
AppendHistory_Dedupe(state_history, new_state_id) ==
    IF Contains(state_history, new_state_id) THEN state_history
    ELSE Append(state_history, new_state_id)

\* The destination put in front of the history.
AppendHistory_Prepend(state_history, new_state_id) ==
    << new_state_id >> \o state_history

\* state_history.append(new_state_id)
AppendHistory(state_history, new_state_id) ==
    Append(state_history, new_state_id)

\* Stickiness decided by the destination's flag alone.
Sticky_IgnoreKind(e, old_state_id, new_state_id) ==
    /\ new_state_id /= END_DEST
    /\ GetState(e, new_state_id).widget.sticky

\* sticky, as computed by FeedbackHandler.post
Sticky(e, old_state_id, new_state_id) ==
    /\ new_state_id /= END_DEST
    /\ GetState(e, new_state_id).widget.sticky
    /\ GetState(e, new_state_id).widget.widget_id
         = GetState(e, old_state_id).widget.widget_id

Finished(new_state_id) == new_state_id = END_DEST

\* Every transition treated as a change of state.
StateHasChanged_Always(old_state_id, new_state_id) == TRUE

StateHasChanged(old_state_id, new_state_id) == old_state_id /= new_state_id

\* The separator appended whatever the two fragments are.
JoinHtml_Always(html_output, state_html) ==
    html_output \o << BR >> \o state_html

\* html_output after the new state's content has been appended
JoinHtml(html_output, state_html) ==
    IF html_output /= <<>> /\ state_html /= <<>>
    THEN html_output \o << BR >> \o state_html
    ELSE html_output \o state_html

FailedContent == [ok |-> FALSE, new_params |-> EmptyParams,
                  html_output |-> <<>>, interactive_html |-> <<>>]

\* The terminal case handing the merged params back without the answer.
TerminalContent_KeepParams(old_params, html_output) ==
    [ok |-> TRUE, new_params |-> [old_params EXCEPT !["answer"] = Unbound],
     html_output |-> html_output, interactive_html |-> <<>>]

\* The terminal case reached after the separator has been appended.
TerminalContent_StraySeparator(old_params, html_output) ==
    [ok |-> TRUE, new_params |-> EmptyParams,
     html_output |-> html_output \o << BR >>, interactive_html |-> <<>>]

\* _append_content when finished: return {}, html_output, ''
TerminalContent(old_params, html_output) ==
    [ok |-> TRUE, new_params |-> EmptyParams,
     html_output |-> html_output, interactive_html |-> <<>>]

\* FeedbackHandler._append_content; ok = FALSE when a call it makes raises.
AppendContent(store, e, sticky, finished, old_params, new_state_id, state_has_changed, html_output) ==
    IF finished THEN TerminalContent(old_params, html_output)
    ELSE IF ~ StateExists(store, e, new_state_id) THEN FailedContent
    ELSE
      LET new_state == GetState(e, new_state_id)
          new_params == UpdateWithStateParams(e, new_state_id, old_params)
          content_ok == state_has_changed => CanRender(new_state.content, new_params)
          prompt_ok == sticky \/
                         (/\ WidgetKnown(INTERACTIVE_PREFIX, new_state.widget.widget_id)
                          /\ CanGetRawCode(new_state.widget, new_params))
      IN IF ~ (content_ok /\ prompt_ok) THEN FailedContent
         ELSE [ok |-> TRUE,
               new_params |-> new_params,
               html_output |->
                 IF state_has_changed
                 THEN JoinHtml(html_output, Render(new_state.content, new_params))
                 ELSE html_output,
               interactive_html |->
                 IF sticky THEN <<>>
                 ELSE GetRawCode(new_state.widget, new_params)]

\* ------------------------------------------------------------------ state
VARIABLES
    explorations,  \* ids of the explorations in the exploration store
    req,           \* per session: the request in flight and its locals
    resp,          \* per session: the response written for that request
    emitted,       \* per session: analytics events the request has recorded
    rnd            \* RandomExplorationPage.get: position and redirect

vars == << explorations, req, resp, emitted, rnd >>

NoResponse == [status |-> "none"]

IdleReq ==
    [kind |-> "none", pc |-> "idle", faithful |-> FALSE, raised |-> FALSE,
     exploration_id |-> "", state_id |-> "", answer |-> "", handler |-> "",
     block_number_in |-> 0, params_in |-> EmptyParams, history_in |-> <<>>,
     block_number |-> 0, old_params |-> EmptyParams, state_history |-> <<>>,
     rule |-> 0, new_state_id |-> "", first_visit |-> FALSE,
     sticky |-> FALSE]

Init ==
    /\ explorations \in {{DemoId}, ExplorationIds}
    /\ req = [s \in Sessions |-> IdleReq]
    /\ resp = [s \in Sessions |-> NoResponse]
    /\ emitted = [s \in Sessions |-> <<>>]
    /\ rnd = [pc |-> "idle", redirect |-> "", iframed |-> FALSE]

Free(s) == req[s].pc \in {"idle", "done"}

\* The request fails: the exception leaves the handler.
Fail(s, status) ==
    /\ resp' = [resp EXCEPT ![s] = [status |-> status]]
    /\ req' = [req EXCEPT ![s].pc = "done"]

StateHit(e, sid, first) ==
    [type |-> "state_hit", exploration_id |-> e, state_id |-> sid,
     first_visit |-> first]

\* The state id and the handler name passed in each other's place.
AnswerSubmitted_SwappedArgs(e, sid, handler, rule, recorded_answer) ==
    [type |-> "answer_submitted", exploration_id |-> e, state_id |-> handler,
     handler |-> sid, rule |-> rule, answer |-> recorded_answer]

AnswerSubmitted(e, sid, handler, rule, recorded_answer) ==
    [type |-> "answer_submitted", exploration_id |-> e, state_id |-> sid,
     handler |-> handler, rule |-> rule, answer |-> recorded_answer]

\* ------------------------------------------------- ExplorationHandler.get
\* A client asks for the initial data of exploration e.
GetStart(s) ==
    /\ Free(s)
    /\ \E e \in ExplorationIds :
         req' = [req EXCEPT ![s] =
                   [IdleReq EXCEPT !.kind = "get", !.pc = "get_render",
                                   !.faithful = TRUE, !.exploration_id = e]]
    /\ resp' = [resp EXCEPT ![s] = NoResponse]
    /\ emitted' = [emitted EXCEPT ![s] = <<>>]
    /\ UNCHANGED << explorations, rnd >>

\* The initial payload with a history that does not yet hold the state.
GetValues_EmptyHistory(e) ==
    LET exploration == ExplorationData(e)
        init_state == GetState(e, exploration.init_state_id)
        reader_params == UpdateWithStateParams(
                             e, exploration.init_state_id, GetInitParams(e))
    IN [block_number |-> 0,
        interactive_html |-> GetRawCode(init_state.widget, reader_params),
        oppia_html |-> Render(init_state.content, reader_params),
        params |-> reader_params,
        state_history |-> << >>,
        state_id |-> exploration.init_state_id,
        title |-> exploration.title]

\* The payload ExplorationHandler.get renders for a stored exploration.
GetValues(e) ==
    LET exploration == ExplorationData(e)
        init_state == GetState(e, exploration.init_state_id)
        reader_params == UpdateWithStateParams(
                             e, exploration.init_state_id, GetInitParams(e))
    IN [block_number |-> 0,
        interactive_html |-> GetRawCode(init_state.widget, reader_params),
        oppia_html |-> Render(init_state.content, reader_params),
        params |-> reader_params,
        state_history |-> << exploration.init_state_id >>,
        state_id |-> exploration.init_state_id,
        title |-> exploration.title]

\* Whether every call made while building that payload returns.
GetRenders(e) ==
    LET exploration == ExplorationData(e)
        init_state == GetState(e, exploration.init_state_id)
        reader_params == UpdateWithStateParams(
                             e, exploration.init_state_id, GetInitParams(e))
    IN /\ CanRender(init_state.content, reader_params)
       /\ WidgetKnown(INTERACTIVE_PREFIX, init_state.widget.widget_id)
       /\ CanGetRawCode(init_state.widget, reader_params)

\* Load the exploration, build the values and render them as JSON.
GetRender(s) ==
    /\ req[s].pc = "get_render"
    /\ LET e == req[s].exploration_id
       IN IF ~ ExplorationExists(explorations, e) THEN Fail(s, "not_found")
          ELSE IF ~ GetRenders(e) THEN Fail(s, "error")
          ELSE /\ resp' = [resp EXCEPT ![s] =
                             [status |-> "ok", values |-> GetValues(e)]]
               /\ req' = [req EXCEPT ![s].pc = "get_hit"]
    /\ UNCHANGED << explorations, emitted, rnd >>

\* record_state_hit(exploration_id, init_state_id, True), after render_json.
GetHit(s) ==
    /\ req[s].pc = "get_hit"
    /\ \E raises \in BOOLEAN :
         LET e == req[s].exploration_id
         IN IF raises
            THEN /\ resp' = [resp EXCEPT ![s].status = "error"]
                 /\ req' = [req EXCEPT ![s].pc = "done", ![s].raised = TRUE]
                 /\ UNCHANGED emitted
            ELSE /\ emitted' = [emitted EXCEPT ![s] =
                       Append(@, StateHit(e, ExplorationData(e).init_state_id, TRUE))]
                 /\ req' = [req EXCEPT ![s].pc = "done"]
                 /\ UNCHANGED resp
    /\ UNCHANGED << explorations, rnd >>

\* --------------------------------------------------- FeedbackHandler.post
\* The request starts with the payload the client sends.
StartPost(s, e, sid, answer, handler, bn, params, history, faithful) ==
    /\ req' = [req EXCEPT ![s] =
                 [IdleReq EXCEPT !.kind = "post", !.pc = "post_load",
                                 !.faithful = faithful,
                                 !.exploration_id = e, !.state_id = sid,
                                 !.answer = answer, !.handler = handler,
                                 !.block_number_in = bn, !.params_in = params,
                                 !.history_in = history]]
    /\ resp' = [resp EXCEPT ![s] = NoResponse]
    /\ emitted' = [emitted EXCEPT ![s] = <<>>]
    /\ UNCHANGED << explorations, rnd >>

\* The client answers, feeding back what the last response gave it.
PostFedBack(s) ==
    /\ req[s].pc = "done"
    /\ resp[s].status = "ok"
    /\ Len(resp[s].values.state_history) <= MaxHistory
    /\ \E answer \in Answers, handler \in Handlers :
         StartPost(s, req[s].exploration_id, resp[s].values.state_id,
                   answer, handler, resp[s].values.block_number,
                   resp[s].values.params, resp[s].values.state_history,
                   req[s].faithful)

\* Payloads a client may send that no response ever gave it.
ForgedStateIds == StateIds \cup {END_DEST}
ForgedHistoryIds == {"A", "B", "Y", END_DEST}
ForgedHistories ==
    UNION {[1..k -> ForgedHistoryIds] : k \in 0..MaxForged}
ForgedParams ==
    {[answer |-> a, p |-> v] : a \in {Unbound, "no"}, v \in {Unbound, "yes"}}
ForgedBlockNumbers == {0, 2}

\* A client opens with a payload of its own making.
PostForged(s) ==
    /\ req[s].pc = "idle"
    /\ \E e \in ExplorationIds, sid \in ForgedStateIds, answer \in Answers,
          handler \in Handlers, bn \in ForgedBlockNumbers,
          params \in ForgedParams, history \in ForgedHistories :
         StartPost(s, e, sid, answer, handler, bn, params, history, FALSE)

\* A request that names END restarted at the initial state.
PostLoadOldState_EndAsInit(s) ==
    /\ req[s].pc = "post_load"
    /\ LET e == req[s].exploration_id
           sid == IF req[s].state_id = END_DEST /\ e \in explorations
                  THEN ExplorationData(e).init_state_id
                  ELSE req[s].state_id
       IN IF StateExists(explorations, e, sid)
          THEN /\ req' = [req EXCEPT ![s].pc = "post_classify",
                                     ![s].state_id = sid]
               /\ UNCHANGED resp
          ELSE Fail(s, "not_found")
    /\ UNCHANGED << explorations, emitted, rnd >>

\* old_state = exp_services.get_state_by_id(exploration_id, state_id)
PostLoadOldState(s) ==
    /\ req[s].pc = "post_load"
    /\ IF StateExists(explorations, req[s].exploration_id, req[s].state_id)
       THEN /\ req' = [req EXCEPT ![s].pc = "post_classify"]
            /\ UNCHANGED resp
       ELSE Fail(s, "not_found")
    /\ UNCHANGED << explorations, emitted, rnd >>

\* One payload object shared by every handler instance.
RequestPayload_Shared(s) ==
    [answer |-> req["s1"].answer, handler |-> req["s1"].handler,
     block_number |-> req["s1"].block_number_in, params |-> req["s1"].params_in,
     state_history |-> req["s1"].history_in]

\* self.payload: the payload of the request this handler instance serves.
RequestPayload(s) ==
    [answer |-> req[s].answer, handler |-> req[s].handler,
     block_number |-> req[s].block_number_in, params |-> req[s].params_in,
     state_history |-> req[s].history_in]

\* The payload is read, the answer merged into the params and the answer
\* classified; new_state_id = rule.dest.
PostClassify(s) ==
    /\ req[s].pc = "post_classify"
    /\ LET r == [exploration_id |-> req[s].exploration_id,
                 state_id |-> req[s].state_id,
                 answer |-> RequestPayload(s).answer,
                 handler |-> RequestPayload(s).handler,
                 block_number_in |-> RequestPayload(s).block_number,
                 params_in |-> RequestPayload(s).params,
                 history_in |-> RequestPayload(s).state_history]
           old_params == MergeAnswer(r.params_in, r.answer)
           rule == Classify(r.exploration_id, r.state_id, r.handler,
                            r.answer, old_params)
       IN IF rule = 0 THEN Fail(s, "error")
          ELSE /\ req' = [req EXCEPT
                     ![s].pc = "post_dest",
                     ![s].block_number = NextBlockNumber(r.block_number_in),
                     ![s].old_params = old_params,
                     ![s].state_history = r.history_in,
                     ![s].rule = rule,
                     ![s].new_state_id =
                        GetState(r.exploration_id, r.state_id).widget.rules[rule].dest]
               /\ UNCHANGED resp
    /\ UNCHANGED << explorations, emitted, rnd >>

\* The destination state not loaded before the hit is recorded.
PostLoadNewState_Lenient(s) ==
    /\ req[s].pc = "post_dest"
    /\ req' = [req EXCEPT ![s].pc = "post_hit"]
    /\ UNCHANGED << explorations, resp, emitted, rnd >>

\* new_state = None if END_DEST else get_state_by_id(...)
PostLoadNewState(s) ==
    /\ req[s].pc = "post_dest"
    /\ IF \/ req[s].new_state_id = END_DEST
          \/ StateExists(explorations, req[s].exploration_id, req[s].new_state_id)
       THEN /\ req' = [req EXCEPT ![s].pc = "post_hit"]
            /\ UNCHANGED resp
       ELSE Fail(s, "not_found")
    /\ UNCHANGED << explorations, emitted, rnd >>

\* record_state_hit(..., new_state_id not in state_history), then
\* state_history.append(new_state_id).
PostRecordStateHit(s) ==
    /\ req[s].pc = "post_hit"
    /\ \E raises \in BOOLEAN :
         LET r == req[s]
             first == IsFirstVisit(r.new_state_id, r.state_history)
         IN IF raises
            THEN /\ resp' = [resp EXCEPT ![s] = [status |-> "error"]]
                 /\ req' = [req EXCEPT ![s].pc = "done", ![s].raised = TRUE]
                 /\ UNCHANGED emitted
            ELSE /\ emitted' = [emitted EXCEPT ![s] =
                       Append(@, StateHit(r.exploration_id, r.new_state_id, first))]
                 /\ req' = [req EXCEPT
                       ![s].pc = "post_stats",
                       ![s].first_visit = first,
                       ![s].state_history =
                          AppendHistory(r.state_history, r.new_state_id)]
                 /\ UNCHANGED resp
    /\ UNCHANGED << explorations, rnd >>

\* sticky is computed, then _append_answer_to_stats_log: the old state's
\* widget is looked up and record_answer_submitted called.
PostStatsLog(s) ==
    /\ req[s].pc = "post_stats"
    /\ \E raises \in BOOLEAN :
         LET r == req[s]
             old_state == GetState(r.exploration_id, r.state_id)
         IN IF ~ WidgetKnown(INTERACTIVE_PREFIX, old_state.widget.widget_id)
            THEN /\ Fail(s, "error")
                 /\ UNCHANGED emitted
            ELSE IF raises
            THEN /\ resp' = [resp EXCEPT ![s] = [status |-> "error"]]
                 /\ req' = [req EXCEPT ![s].pc = "done", ![s].raised = TRUE]
                 /\ UNCHANGED emitted
            ELSE /\ emitted' = [emitted EXCEPT ![s] =
                       Append(@, AnswerSubmitted(
                           r.exploration_id, r.state_id, r.handler, r.rule,
                           GetStatsLogHtml(old_state.widget, r.old_params, r.answer)))]
                 /\ req' = [req EXCEPT
                       ![s].pc = "post_render",
                       ![s].sticky = Sticky(r.exploration_id, r.state_id,
                                            r.new_state_id)]
                 /\ UNCHANGED resp
    /\ UNCHANGED << explorations, rnd >>

\* The rest of post: the reader's response, the feedback and the new
\* state's content are rendered and the values written as JSON.
PostRender(s) ==
    /\ req[s].pc = "post_render"
    /\ LET r == req[s]
           e == r.exploration_id
           old_state == GetState(e, r.state_id)
           feedback == old_state.widget.rules[r.rule].feedback
           reader_response == GetReaderResponseHtml(
                                  old_state.widget, r.old_params, r.answer)
           finished == Finished(r.new_state_id)
           state_has_changed == StateHasChanged(old_state.id, r.new_state_id)
           out == AppendContent(explorations, e, r.sticky, finished,
                                r.old_params, r.new_state_id, state_has_changed,
                                GetFeedback(feedback, r.old_params))
       IN IF ~ CanGetFeedback(feedback, r.old_params) THEN Fail(s, "error")
          ELSE IF ~ out.ok THEN Fail(s, "error")
          ELSE /\ resp' = [resp EXCEPT ![s] =
                     [status |-> "ok",
                      values |->
                        [reader_response_html |-> reader_response[1],
                         reader_response_iframe |-> reader_response[2],
                         interactive_html |-> out.interactive_html,
                         exploration_id |-> e,
                         state_id |-> r.new_state_id,
                         oppia_html |-> out.html_output,
                         block_number |-> r.block_number,
                         params |-> out.new_params,
                         finished |-> finished,
                         state_history |-> r.state_history]]]
               /\ req' = [req EXCEPT ![s].pc = "done"]
    /\ UNCHANGED << explorations, emitted, rnd >>

\* ---------------------------------------------- RandomExplorationPage.get
ExplorationOrder == << "1", "2" >>

\* exp_services.get_public_explorations
GetPublicExplorations(store) ==
    SelectSeq(ExplorationOrder, LAMBDA e : e \in store)

Redirect(id, iframed) == [pc |-> "idle", redirect |-> id, iframed |-> iframed]

\* The public explorations are listed; with more than one, a random one
\* other than the first is chosen and the reader redirected to it.
RandomGet ==
    /\ rnd.pc = "idle"
    /\ \E iframed \in BOOLEAN :
         LET list == GetPublicExplorations(explorations)
         IN IF Len(list) <= 1
            THEN rnd' = [pc |-> "delete_demo", redirect |-> "", iframed |-> iframed]
            ELSE \E i \in 2..Len(list) : rnd' = Redirect(list[i], iframed)
    /\ UNCHANGED << explorations, req, resp, emitted >>

\* exp_services.delete_demo('1')
RandomDeleteDemo ==
    /\ rnd.pc = "delete_demo"
    /\ explorations' = explorations \ {DemoId}
    /\ rnd' = [rnd EXCEPT !.pc = "load_demo"]
    /\ UNCHANGED << req, resp, emitted >>

\* exp_services.load_demo('1'), then the redirect to /learn/1
RandomLoadDemo ==
    /\ rnd.pc = "load_demo"
    /\ explorations' = explorations \cup {DemoId}
    /\ rnd' = Redirect(DemoId, rnd.iframed)
    /\ UNCHANGED << req, resp, emitted >>

\* ---------------------------------------------------------- specification
Handle(s) ==
    \/ GetStart(s)
    \/ GetRender(s)
    \/ GetHit(s)
    \/ PostFedBack(s)
    \/ PostLoadOldState(s)
    \/ PostClassify(s)
    \/ PostLoadNewState(s)
    \/ PostRecordStateHit(s)
    \/ PostStatsLog(s)
    \/ PostRender(s)

\* One reader, who may also forge payloads, next to the random page.
Next ==
    \/ Handle("s1")
    \/ PostForged("s1")
    \/ RandomGet
    \/ RandomDeleteDemo
    \/ RandomLoadDemo

Spec == Init /\ [][Next]_vars

\* Two readers whose requests interleave; the store is only read.
NextSessions == \E s \in Sessions : Handle(s)

SpecSessions == Init /\ [][NextSessions]_vars

\* ------------------------------------------------ the handlers run alone
\* FeedbackHandler.post from its first line to render_json, run without
\* interruption against the store and with an event handler that returns.
PostAlone(store, e, sid, answer, handler, bn, params, history) ==
    IF ~ StateExists(store, e, sid) THEN [status |-> "not_found"]
    ELSE
      LET old_state == GetState(e, sid)
          old_params == MergeAnswer(params, answer)
          rule == Classify(e, sid, handler, answer, old_params)
      IN IF rule = 0 THEN [status |-> "error"]
         ELSE
           LET new_state_id == old_state.widget.rules[rule].dest
               feedback == old_state.widget.rules[rule].feedback
               first == IsFirstVisit(new_state_id, history)
               state_history == AppendHistory(history, new_state_id)
               finished == Finished(new_state_id)
               reader_response == GetReaderResponseHtml(
                                      old_state.widget, old_params, answer)
           IN IF new_state_id /= END_DEST /\ ~ StateExists(store, e, new_state_id)
              THEN [status |-> "not_found"]
              ELSE IF ~ WidgetKnown(INTERACTIVE_PREFIX, old_state.widget.widget_id)
              THEN [status |-> "error"]
              ELSE IF ~ CanGetFeedback(feedback, old_params)
              THEN [status |-> "error"]
              ELSE
                LET out == AppendContent(
                               store, e, Sticky(e, sid, new_state_id), finished,
                               old_params, new_state_id,
                               StateHasChanged(old_state.id, new_state_id),
                               GetFeedback(feedback, old_params))
                IN IF ~ out.ok THEN [status |-> "error"]
                   ELSE [status |-> "ok",
                         first_visit |-> first,
                         values |->
                           [reader_response_html |-> reader_response[1],
                            reader_response_iframe |-> reader_response[2],
                            interactive_html |-> out.interactive_html,
                            exploration_id |-> e,
                            state_id |-> new_state_id,
                            oppia_html |-> out.html_output,
                            block_number |-> NextBlockNumber(bn),
                            params |-> out.new_params,
                            finished |-> finished,
                            state_history |-> state_history]]

\* ExplorationHandler.get run the same way.
GetAlone(store, e) ==
    IF ~ ExplorationExists(store, e) THEN [status |-> "not_found"]
    ELSE IF ~ GetRenders(e) THEN [status |-> "error"]
    ELSE [status |-> "ok", first_visit |-> TRUE, values |-> GetValues(e)]

\* ----------------------------------------------------- vocabulary of the
\* properties below
PostDone(s) == req[s].kind = "post" /\ req[s].pc = "done"
PostOk(s) == PostDone(s) /\ resp[s].status = "ok"
GetDone(s) == req[s].kind = "get" /\ req[s].pc = "done"
OldState(s) == GetState(req[s].exploration_id, req[s].state_id)
MatchedRule(s) == OldState(s).widget.rules[req[s].rule]
MergedParams(s) == [req[s].params_in EXCEPT !["answer"] = req[s].answer]
FeedbackHtml(s) == GetFeedback(MatchedRule(s).feedback, MergedParams(s))
InHistory(h, x) == \E i \in 1..Len(h) : h[i] = x

\* ------------------------------------------------------------- properties

\* C1: the first-visit flag of the state hit recorded by post is true
\* exactly when the destination does not occur in the state_history the
\* caller supplied, as it was before the destination was appended.
C1_FirstVisitIffAbsent ==
    \A s \in Sessions :
      (req[s].kind = "post" /\ emitted[s] /= <<>>) =>
        /\ emitted[s][1].type = "state_hit"
        /\ emitted[s][1].state_id = MatchedRule(s).dest
        /\ emitted[s][1].first_visit
             = ~ InHistory(req[s].history_in, MatchedRule(s).dest)

\* A revisit: the destination occurs in the supplied history, though not
\* as its last element, and the hit was recorded as no first visit.
C1_Witness ==
    \E s \in Sessions :
      /\ req[s].kind = "post" /\ emitted[s] /= <<>>
      /\ Len(req[s].history_in) >= 2
      /\ InHistory(req[s].history_in, MatchedRule(s).dest)
      /\ req[s].history_in[Len(req[s].history_in)] /= MatchedRule(s).dest
      /\ ~ emitted[s][1].first_visit

\* C2: a post that fails in resolution (not through the event handler
\* itself raising) has recorded neither a state hit nor a submitted answer.
C2_NoEventOnFailedResolution ==
    \A s \in Sessions :
      (PostDone(s) /\ resp[s].status /= "ok" /\ ~ req[s].raised) =>
        emitted[s] = <<>>

\* C3, as claimed: on an END destination the returned params are the merged
\* params without the 'answer' key.
C3_TerminalParamsAreMergedMinusAnswer ==
    \A s \in Sessions :
      (PostOk(s) /\ MatchedRule(s).dest = END_DEST) =>
        resp[s].values.params = [MergedParams(s) EXCEPT !["answer"] = Unbound]

\* C3: on an END destination the returned params are the empty mapping,
\* whatever params the caller supplied; no parameter update of a
\* destination is applied.
C3_TerminalParamsEmpty ==
    \A s \in Sessions :
      (PostOk(s) /\ MatchedRule(s).dest = END_DEST) =>
        resp[s].values.params = EmptyParams

\* A terminal transition of a request that supplied a bound parameter.
C3_Witness ==
    \E s \in Sessions :
      /\ PostOk(s) /\ MatchedRule(s).dest = END_DEST
      /\ req[s].params_in["p"] /= Unbound
      /\ resp[s].values.finished

\* C4: an event handler call that raises does not abort the request: the
\* handler still completes with its response.
C4_EmitterFailureSwallowed ==
    \A s \in Sessions :
      (req[s].pc = "done" /\ req[s].raised) => resp[s].status = "ok"

\* C5: a successful post returns the supplied state_history with exactly
\* the destination id appended, everything before it untouched, and
\* state_id is the last element of the returned history.
C5_HistoryExtendedByDestination ==
    \A s \in Sessions :
      PostOk(s) =>
        LET h == resp[s].values.state_history
            n == Len(req[s].history_in)
        IN /\ Len(h) = n + 1
           /\ \A i \in 1..n : h[i] = req[s].history_in[i]
           /\ h[n + 1] = MatchedRule(s).dest
           /\ resp[s].values.state_id = h[Len(h)]

\* A successful self-loop whose destination the supplied history already
\* holds: the history still grows by one element.
C5_Witness ==
    \E s \in Sessions :
      /\ PostOk(s)
      /\ MatchedRule(s).dest = req[s].state_id
      /\ InHistory(req[s].history_in, req[s].state_id)
      /\ Len(resp[s].values.state_history) = Len(req[s].history_in) + 1

\* C6: on an END destination the response is finished, carries no prompt
\* and its content is the rendered feedback alone; and a response is
\* finished only on an END destination.
C6_TerminalAbsorption ==
    \A s \in Sessions :
      PostOk(s) =>
        /\ MatchedRule(s).dest = END_DEST =>
             /\ resp[s].values.finished
             /\ resp[s].values.interactive_html = <<>>
             /\ resp[s].values.oppia_html = FeedbackHtml(s)
        /\ resp[s].values.finished => MatchedRule(s).dest = END_DEST

\* A terminal transition with feedback, reached with a bound parameter
\* and a history that is not empty.
C6_Witness ==
    \E s \in Sessions :
      /\ PostOk(s) /\ MatchedRule(s).dest = END_DEST
      /\ resp[s].values.finished
      /\ FeedbackHtml(s) /= <<>>
      /\ req[s].params_in["p"] /= Unbound
      /\ req[s].history_in /= <<>>

\* C7: on a transition that is not terminal the prompt is empty exactly
\* when the destination's widget is sticky and of the current state's
\* widget kind; with a different kind the prompt is rendered even though
\* the destination is sticky.
C7_StickySuppression ==
    \A s \in Sessions :
      (PostOk(s) /\ MatchedRule(s).dest /= END_DEST) =>
        LET new_widget == GetState(req[s].exploration_id,
                                   MatchedRule(s).dest).widget
        IN /\ (resp[s].values.interactive_html = <<>>)
                <=> (/\ new_widget.sticky
                     /\ new_widget.widget_id = OldState(s).widget.widget_id)
           /\ resp[s].values.interactive_html /= <<>> =>
                resp[s].values.interactive_html[1] = new_widget.widget_id

\* A sticky destination of another widget kind, its prompt rendered.
C7_Witness ==
    \E s \in Sessions :
      /\ PostOk(s) /\ MatchedRule(s).dest /= END_DEST
      /\ GetState(req[s].exploration_id, MatchedRule(s).dest).widget.sticky
      /\ GetState(req[s].exploration_id, MatchedRule(s).dest).widget.widget_id
           /= OldState(s).widget.widget_id
      /\ resp[s].values.interactive_html /= <<>>

\* C8: on a self-loop the content returned is exactly the rendered
\* feedback; the destination's content is appended only when the
\* destination differs from the current state and is not END.
C8_SelfLoopOnlyFeedback ==
    \A s \in Sessions :
      PostOk(s) =>
        /\ MatchedRule(s).dest = req[s].state_id =>
             resp[s].values.oppia_html = FeedbackHtml(s)
        /\ resp[s].values.oppia_html /= FeedbackHtml(s) =>
             /\ MatchedRule(s).dest /= req[s].state_id
             /\ MatchedRule(s).dest /= END_DEST

\* A self-loop at a state that has content of its own.
C8_Witness ==
    \E s \in Sessions :
      /\ PostOk(s)
      /\ MatchedRule(s).dest = req[s].state_id
      /\ OldState(s).content /= <<>>
      /\ resp[s].values.oppia_html = FeedbackHtml(s)

\* C9: no step of any handler changes the exploration store.
C9_StoreNeverMutated == [][explorations' = explorations]_vars

\* C10: with the requests of several sessions interleaved, a request that
\* completes (its event handler calls returning) has the status, the
\* response values and the first-visit flag that the same request yields
\* when it runs alone on its own payload.
C10_SessionIsolation ==
    \A s \in Sessions :
      /\ (PostDone(s) /\ ~ req[s].raised) =>
           LET alone == PostAlone(explorations, req[s].exploration_id,
                                  req[s].state_id, req[s].answer,
                                  req[s].handler, req[s].block_number_in,
                                  req[s].params_in, req[s].history_in)
           IN /\ resp[s].status = alone.status
              /\ alone.status = "ok" =>
                   /\ resp[s].values = alone.values
                   /\ emitted[s][1].first_visit = alone.first_visit
      /\ (GetDone(s) /\ ~ req[s].raised) =>
           LET alone == GetAlone(explorations, req[s].exploration_id)
           IN /\ resp[s].status = alone.status
              /\ alone.status = "ok" =>
                   /\ resp[s].values = alone.values
                   /\ emitted[s][1].first_visit = alone.first_visit

\* One session's post has completed while the post of another session,
\* at another state and with other params, is still in progress.
C10_Witness ==
    /\ PostOk("s2")
    /\ req["s1"].kind = "post" /\ req["s1"].pc = "post_render"
    /\ req["s1"].state_id /= req["s2"].state_id
    /\ req["s1"].params_in /= req["s2"].params_in
    /\ req["s1"].history_in /= req["s2"].history_in

\* What holds of every ExplorationHandler.get in every state.
EntryState ==
    \A s \in Sessions :
      req[s].kind = "get" =>
        LET e == req[s].exploration_id
            init == ExplorationData(e).init_state_id
        IN /\ req[s].rule = 0
           /\ resp[s].status = "ok" =>
                /\ resp[s].values.state_id = init
                /\ resp[s].values.state_history = << init >>
                /\ resp[s].values.block_number = 0
           /\ resp[s].status = "not_found" => emitted[s] = <<>>
           /\ \A i \in 1..Len(emitted[s]) : emitted[s][i].type = "state_hit"
           /\ (GetDone(s) /\ resp[s].status = "ok") =>
                emitted[s] = << [type |-> "state_hit", exploration_id |-> e,
                                 state_id |-> init, first_visit |-> TRUE] >>

\* The step in which ExplorationHandler.get loads the exploration.
EntryLoadStep ==
    \A s \in Sessions :
      (req[s].pc = "get_render" /\ req'[s].pc /= "get_render") =>
        IF req[s].exploration_id \in explorations
        THEN resp'[s].status /= "not_found"
        ELSE /\ resp'[s].status = "not_found"
             /\ req'[s].pc = "done"
             /\ emitted'[s] = <<>>

\* C11: ExplorationHandler.get on a stored exploration answers with the
\* initial state id, a history holding just that id and block number 0,
\* records exactly one state hit, for the initial state and as a first
\* visit, records no submitted answer and classifies nothing; on an
\* exploration that is not stored it fails as not found, recording nothing.
C11_EntryDelivery == [][EntryState' /\ EntryLoadStep]_vars

\* An entry that has completed with its state hit recorded.
C11_Witness ==
    \E s \in Sessions :
      /\ GetDone(s) /\ resp[s].status = "ok"
      /\ Len(emitted[s]) = 1
      /\ resp[s].values.state_history = << "A" >>

\* C12: on a transition that is not terminal the returned params are the
\* destination's parameter changes applied to the supplied params with the
\* answer stored under 'answer', and the destination's content and prompt
\* are rendered with the params so obtained.
C12_ParamsFromMergedContext ==
    \A s \in Sessions :
      (PostOk(s) /\ MatchedRule(s).dest /= END_DEST) =>
        LET new_state == GetState(req[s].exploration_id, MatchedRule(s).dest)
            new_params == ApplyParamChanges(new_state.param_changes,
                                            MergedParams(s))
        IN /\ resp[s].values.params = new_params
           /\ MatchedRule(s).dest /= req[s].state_id =>
                resp[s].values.oppia_html
                  = JoinHtml(FeedbackHtml(s), Render(new_state.content, new_params))
           /\ resp[s].values.interactive_html /= <<>> =>
                resp[s].values.interactive_html
                  = GetRawCode(new_state.widget, new_params)

\* A destination whose parameter change copies the answer, reached with
\* another answer left in the supplied params.
C12_Witness ==
    \E s \in Sessions :
      /\ PostOk(s) /\ MatchedRule(s).dest = "B" /\ req[s].state_id /= "B"
      /\ req[s].params_in["answer"] /= req[s].answer
      /\ resp[s].values.params["p"] = req[s].answer
      /\ resp[s].values.oppia_html[Len(resp[s].values.oppia_html)] = req[s].answer

\* What holds of every failed post in every state.
FailedPostState ==
    \A s \in Sessions :
      PostDone(s) =>
        /\ resp[s].status /= "ok" => DOMAIN resp[s] = {"status"}
        /\ resp[s].status = "not_found" => emitted[s] = <<>>
        /\ req[s].rule = 0 => (resp[s].status /= "ok" /\ emitted[s] = <<>>)

\* The steps in which post loads the current state, classifies the answer
\* and loads the destination.
FailedPostStep ==
    \A s \in Sessions :
      LET e == req[s].exploration_id
          failed == /\ req'[s].pc = "done"
                    /\ resp'[s].status /= "ok"
                    /\ emitted'[s] = <<>>
      IN /\ (/\ req[s].pc = "post_load" /\ req'[s].pc /= "post_load"
             /\ ~ StateExists(explorations, e, req[s].state_id))
              => (failed /\ resp'[s].status = "not_found")
         /\ (/\ req[s].pc = "post_classify" /\ req'[s].pc /= "post_classify"
             /\ \A i \in 1..Len(OldState(s).widget.rules) :
                  /\ OldState(s).widget.rules[i].pred /= "default"
                  /\ OldState(s).widget.rules[i].pred /= req[s].answer)
              => failed
         /\ (/\ req[s].pc = "post_dest" /\ req'[s].pc /= "post_dest"
             /\ req[s].new_state_id /= END_DEST
             /\ ~ StateExists(explorations, e, req[s].new_state_id))
              => (failed /\ resp'[s].status = "not_found")

\* C13: when the current state cannot be loaded, when no rule matches or
\* when the destination state is absent, post fails without a payload and
\* without having recorded an event; the unknown-state cases are not-found
\* failures.
C13_FailureBeforeEvents == [][FailedPostState' /\ FailedPostStep]_vars

\* A post whose matched rule leads to a state the exploration lacks.
C13_Witness ==
    \E s \in Sessions :
      /\ PostDone(s) /\ resp[s].status = "not_found"
      /\ req[s].rule /= 0
      /\ req[s].new_state_id = "Z"

\* C14: a response names END as its state only when the matched rule's
\* destination is END, and a post that names END as its current state, as
\* every post does that follows a finished response of its session, fails
\* without a transition, a state hit or an extended history.
C14_TerminatedAbsorbing ==
    \A s \in Sessions :
      /\ (PostOk(s) /\ resp[s].values.state_id = END_DEST) =>
           (MatchedRule(s).dest = END_DEST /\ resp[s].values.finished)
      /\ (/\ PostDone(s)
          /\ \/ req[s].state_id = END_DEST
             \/ /\ req[s].faithful /\ req[s].history_in /= <<>>
                /\ req[s].history_in[Len(req[s].history_in)] = END_DEST)
           => /\ resp[s].status = "not_found"
              /\ emitted[s] = <<>>
              /\ req[s].state_history = <<>>

\* A session begun at the entry point has finished and posts once more.
C14_Witness ==
    \E s \in Sessions :
      /\ PostDone(s) /\ req[s].faithful
      /\ req[s].state_id = END_DEST
      /\ Len(req[s].history_in) >= 2
      /\ req[s].history_in[Len(req[s].history_in)] = END_DEST
      /\ resp[s].status = "not_found"

\* C15: in a session begun at the entry point whose responses are fed
\* back unchanged, the current state id is the last element of the history
\* sent with each post; a self-loop therefore is not finished and its state
\* hit is no first visit.
C15_CurrentStateIsLastOfHistory ==
    \A s \in Sessions :
      (req[s].kind = "post" /\ req[s].faithful) =>
        /\ req[s].history_in /= <<>>
        /\ req[s].history_in[Len(req[s].history_in)] = req[s].state_id
        /\ (PostOk(s) /\ MatchedRule(s).dest = req[s].state_id) =>
             /\ ~ resp[s].values.finished
             /\ emitted[s][1].type = "state_hit"
             /\ ~ emitted[s][1].first_visit

\* A self-loop in such a session, after an earlier transition.
C15_Witness ==
    \E s \in Sessions :
      /\ PostOk(s) /\ req[s].faithful
      /\ MatchedRule(s).dest = req[s].state_id
      /\ Len(req[s].history_in) >= 2
      /\ ~ emitted[s][1].first_visit

\* C16: the outcome of a post depends on the supplied params only through
\* the context merged with the new answer: whatever an earlier request left
\* under 'answer', the post yields what a single call seeded with the
\* merged context yields.
C16_RoundTripOfContext ==
    \A s \in Sessions :
      PostOk(s) =>
        \A v \in Answers \cup {Unbound} :
          LET seeded == PostAlone(ExplorationIds, req[s].exploration_id,
                                  req[s].state_id, req[s].answer,
                                  req[s].handler, req[s].block_number_in,
                                  [req[s].params_in EXCEPT !["answer"] = v],
                                  req[s].history_in)
          IN /\ seeded.status = "ok"
             /\ seeded.values = resp[s].values
             /\ seeded.first_visit = emitted[s][1].first_visit

\* A post fed back from a transition made with another answer, which the
\* returned params still hold.
C16_Witness ==
    \E s \in Sessions :
      /\ PostOk(s) /\ req[s].faithful
      /\ req[s].params_in["answer"] /= Unbound
      /\ req[s].params_in["answer"] /= req[s].answer
      /\ MatchedRule(s).dest /= END_DEST
      /\ MatchedRule(s).dest /= req[s].state_id

\* C17: where the destination's content is appended to the feedback, the
\* separator stands between the two exactly when both are non-empty; with
\* one of them empty the result is the other alone.
C17_SeparatorOnlyBetweenNonEmpty ==
    \A s \in Sessions :
      (/\ PostOk(s)
       /\ MatchedRule(s).dest /= END_DEST
       /\ MatchedRule(s).dest /= req[s].state_id) =>
        LET fb == FeedbackHtml(s)
            content == Render(GetState(req[s].exploration_id,
                                       MatchedRule(s).dest).content,
                              resp[s].values.params)
            html == resp[s].values.oppia_html
        IN /\ (fb /= <<>> /\ content /= <<>>) => html = fb \o << BR >> \o content
           /\ fb = <<>> => html = content
           /\ content = <<>> => html = fb

\* Feedback followed by a destination without content.
C17_Witness ==
    \E s \in Sessions :
      /\ PostOk(s)
      /\ MatchedRule(s).dest /= END_DEST
      /\ MatchedRule(s).dest /= req[s].state_id
      /\ FeedbackHtml(s) /= <<>>
      /\ GetState(req[s].exploration_id, MatchedRule(s).dest).content = <<>>
      /\ resp[s].values.oppia_html = FeedbackHtml(s)

\* C18: a successful post answers the supplied block number plus one; in a
\* session begun at the entry point and fed back unchanged the block number
\* is the number of transitions made, the length of the history less one.
C18_BlockNumberCountsTransitions ==
    \A s \in Sessions :
      /\ PostOk(s) =>
           /\ resp[s].values.block_number = req[s].block_number_in + 1
           /\ req[s].faithful =>
                resp[s].values.block_number
                  = Len(resp[s].values.state_history) - 1
      /\ (req[s].kind = "get" /\ resp[s].status = "ok") =>
           resp[s].values.block_number = Len(resp[s].values.state_history) - 1

\* The second transition of such a session, a self-loop or a terminal one.
C18_Witness ==
    \E s \in Sessions :
      /\ PostOk(s) /\ req[s].faithful
      /\ resp[s].values.block_number = 2
      /\ MatchedRule(s).dest \in {req[s].state_id, END_DEST}

\* C19: when the new state's widget is sticky and of the old state's
\* widget kind, the response carries no reader response.
C19_NoReaderResponseWhenSticky ==
    \A s \in Sessions :
      (PostOk(s) /\ req[s].sticky) =>
        /\ resp[s].values.reader_response_html = <<>>
        /\ resp[s].values.reader_response_iframe = <<>>

\* C20: a successful post has recorded exactly two events, first the state
\* hit for the destination, then the submitted answer for the origin state,
\* the handler and the matched rule; both are recorded before the response
\* is written.
C20_EventsOfASuccessfulPost ==
    \A s \in Sessions :
      req[s].kind = "post" =>
        /\ resp[s].status = "ok" =>
             /\ Len(emitted[s]) = 2
             /\ emitted[s][1].type = "state_hit"
             /\ emitted[s][1].exploration_id = req[s].exploration_id
             /\ emitted[s][1].state_id = MatchedRule(s).dest
             /\ emitted[s][2].type = "answer_submitted"
             /\ emitted[s][2].exploration_id = req[s].exploration_id
             /\ emitted[s][2].state_id = req[s].state_id
             /\ emitted[s][2].handler = req[s].handler
             /\ emitted[s][2].rule = req[s].rule
        /\ Len(emitted[s]) < 2 => resp[s].status /= "ok"
        /\ Len(emitted[s]) <= 2
        /\ (emitted[s] /= <<>> => emitted[s][1].type = "state_hit")

\* A successful transition to another state, its two events recorded.
C20_Witness ==
    \E s \in Sessions :
      /\ PostOk(s)
      /\ MatchedRule(s).dest /= req[s].state_id
      /\ Len(emitted[s]) = 2
      /\ emitted[s][1].state_id /= emitted[s][2].state_id

====
